---------------------------- MODULE Spec2Model ----------------------------
(***************************************************************************)
(* State-machine model of the Ollama monitor's health-check engine:        *)
(* the async_retry wrapper, OllamaMonitor.check_endpoint, run_checks,      *)
(* load_test, continuous_monitoring with the shutdown event, and the       *)
(* AlertManager they drive (src/ollama_monitor.py, src/alerting.py).       *)
(*                                                                         *)
(* The program runs on one asyncio event loop: the code between two        *)
(* awaits that really suspend is one atomic step.  The suspension points   *)
(* modelled are the HTTP request of check_endpoint, the webhook POST of    *)
(* send_alert, the retry delay asyncio.sleep, and the semaphore of         *)
(* load_test.  The environment chooses what each request produces.         *)
(*                                                                         *)
(* Logging, the debug parse of a JSON body and the Prometheus calls of     *)
(* check_endpoint change no state of the engine and are modelled as       *)
(* returning normally.                                                     *)
(*                                                                         *)
(* Optional values are sets: {} is Python's None, {v} is the value v.      *)
(* Response bodies and expected_content are sequences of characters.       *)
(***************************************************************************)
EXTENDS Integers, Sequences, FiniteSets, TLC

---------------------------------------------------------------------------
(* Bounds of the model *)

\* largest retry budget (RETRY_ATTEMPTS / attempts=) explored, from 0
MaxAttempts == 3
\* largest AlertManager.min_failures explored, from 1
MaxMinFailures == 2
\* largest retry budget explored for the probes of a load_test, from 0
MaxLoadAttempts == 2
\* largest num_requests of load_test explored, from 0
MaxRequests == 2
\* largest concurrency of load_test explored, from 1
MaxConcurrency == 2
\* loop iterations of one continuous_monitoring run
MaxCycles == 2
\* checks of the endpoint "/" between two resets, in the runs that call
\* the bookkeeping methods of AlertManager in any order
MaxApiChecks == 3
\* reset_stats calls in one such run
MaxResets == 1
\* webhook requests in the log up to which send_alert is called directly
MaxSends == 2
\* check_and_alert calls for the endpoint "/" in one run
MaxChecks == 11
\* check_and_alert calls for any other endpoint in one run
MaxOtherChecks == 1
\* AlertManager(min_failures=...) of the call-sequence runs
MaxAlertMinFailures == 3
\* check_and_alert calls made one after the other before a load test
MaxPriorChecks == 9

(* Program constants *)

\* alerting.py:150  "if self.total_checks[endpoint] >= 10"
MinSampleSize == 10
\* alerting.py:19   alert_threshold: float = 0.95, as a percentage
DefaultAlertThresholdPct == 95
\* ollama_monitor.py:275  "if code == 200"
LoadTestOkStatus == 200

---------------------------------------------------------------------------
(* Values *)

None == {}
Some(v) == {v}

\* EndpointConfig(path, method, expected_status, expected_content, ...)
EndpointConfig(p, st, content) ==
    [path |-> p, expected_status |-> st, expected_content |-> content]

\* the default endpoint of main(): EndpointConfig("/")
RootConfig == EndpointConfig("/", 200, None)
\* an endpoint with an expected body substring
TagsConfig == EndpointConfig("/api/tags", 200, Some(<<"u", "p">>))
\* an endpoint expecting another status, with an empty expected_content
GenerateConfig == EndpointConfig("/api/generate", 201, Some(<<>>))

\* self.endpoints: a dict, iterated in insertion order
Configurations ==
    { <<RootConfig, TagsConfig>>,
      <<GenerateConfig, RootConfig>> }

\* load_test reads self.endpoints["/"]; the second has no such key
LoadConfigurations ==
    { <<RootConfig>>,
      <<TagsConfig>> }

\* what a completed request can carry
Statuses == {200, 201}
Bodies == { <<"i", "s", "u", "p">>, <<"d", "o", "w", "n">> }
Latencies == {1, 2}
\* what a request that does not complete raises
Errors == {"ConnectError", "ReadTimeout"}
\* the responses and errors of a load_test run: the endpoint "/" of
\* LoadConfigurations expects no content, so one body stands for all
LoadBodies == { <<"i", "s", "u", "p">> }
LoadErrors == {"ReadTimeout"}

\* the endpoint names a caller hands to AlertManager.check_and_alert
AlertEndpoints == {"/", "/api/tags"}
\* AlertManager(alert_threshold=...) in percent
AlertThresholds == {DefaultAlertThresholdPct}

\* what the webhook POST of send_alert can end with: a response status,
\* or an exception of the request (timeouts included)
WebhookStatuses == {200, 201, 202, 203, 204, 500}
WebhookOutcomes ==
    { [kind |-> "status", status |-> st] : st \in WebhookStatuses }
        \cup { [kind |-> "raise", error |-> e] : e \in Errors }
\* a webhook that accepts every POST
WebhookAccepts == { [kind |-> "status", status |-> 200] }
\* the severity arguments of direct send_alert calls
Severities == {"info", "critical"}

\* the outcome of one call of check_endpoint's body
Return(lat, st, body) ==
    [kind |-> "return", response_time |-> lat, status_code |-> st, text |-> body]
Raise(e) == [kind |-> "raise", error |-> e]
\* the wrapper falling off the end of "for attempt in range(0)"
ReturnNone == [kind |-> "return_none"]
Pending == [kind |-> "pending"]

---------------------------------------------------------------------------
VARIABLES
    \* configuration, fixed after construction
    attempts,          \* async_retry(attempts=...)
    endpoints,         \* OllamaMonitor.endpoints, in iteration order
    alert_manager,     \* OllamaMonitor.alert_manager is not None
    alert_on_failure,  \* AlertManager.alert_on_failure
    enabled,           \* AlertManager.enabled (webhook_url is not None)
    min_failures,      \* AlertManager.min_failures
    alert_threshold,   \* AlertManager.alert_threshold, in percent
    use_prometheus,    \* OllamaMonitor.use_prometheus
    \* AlertManager state
    failure_counts,    \* dict endpoint -> int
    total_checks,      \* dict endpoint -> int
    alerts,            \* webhook requests issued by send_alert, in order
    \* one task per check_endpoint call (through the retry wrapper)
    pc,                \* where the task is suspended
    task_endpoint,     \* the endpoint argument of the call
    attempt,           \* the wrapper's loop variable
    calls,             \* invocations of the wrapped function
    raises,            \* invocations that ended in an exception
    sleeps,            \* asyncio.sleep(delay) calls of the wrapper
    last_outcome,      \* what the latest invocation produced
    reported,          \* success arguments handed to check_and_alert
    result,            \* what the wrapper returned or raised
    finished,          \* task ids in completion order
    \* run_checks
    rc_pc,
    results,
    \* load_test
    lt_pc,
    num_requests,
    concurrency,
    semaphore,         \* asyncio.Semaphore._value
    response_times,
    status_codes,
    summary,
    \* continuous_monitoring
    cm_pc,             \* where continuous_monitoring is
    shutdown_event,    \* asyncio.Event.is_set()
    cycle,             \* loop iterations begun
    cycle_error,       \* the latest iteration's try block raised
    signal_at,         \* where the loop was when the event was set
    \* a caller of AlertManager.check_and_alert
    checks,            \* per endpoint, the success arguments so far
    last_call,         \* the latest call and the alerts it sent
    resets             \* reset_stats calls made

cfgvars == <<attempts, endpoints, alert_manager, alert_on_failure, enabled,
             min_failures, alert_threshold, use_prometheus>>
amvars == <<failure_counts, total_checks, alerts>>
taskvars == <<pc, task_endpoint, attempt, calls, raises, sleeps, last_outcome,
              reported, result, finished>>
rcvars == <<rc_pc, results>>
ltvars == <<lt_pc, num_requests, concurrency, semaphore, response_times,
            status_codes, summary>>
cmvars == <<cm_pc, shutdown_event, cycle, cycle_error, signal_at>>
apivars == <<checks, last_call, resets>>
vars == <<cfgvars, amvars, taskvars, rcvars, ltvars, cmvars, apivars>>

Tasks == DOMAIN pc

---------------------------------------------------------------------------
(* Pure helpers *)

\* Python's "sub in text" for strings
Contains(sub, text) ==
    \E i \in 0..(Len(text) - Len(sub)) :
        SubSeq(text, i + 1, i + Len(sub)) = sub

\* Python truthiness of an Optional[str]: None and "" are falsy
Truthy(opt) == \E s \in opt : Len(s) > 0

\* self.endpoints.get-like lookup by key; {} when the key is absent
Lookup(eps, p) == { eps[i] : i \in { j \in DOMAIN eps : eps[j].path = p } }

\* dict read with the key known to be present
Get(d, k) == d[k]

\* dict write, adding the key when absent
Put(d, k, v) == [x \in (DOMAIN d) \cup {k} |-> IF x = k THEN v ELSE d[x]]

Last(s) == s[Len(s)]

---------------------------------------------------------------------------
(* AlertManager (src/alerting.py) *)

\* variant: a failed check is counted as a failure but not as a check
record_check_FailureUncounted(fc, tc, ep, success) ==
    LET known == ep \in DOMAIN tc
        tc0 == IF known THEN tc ELSE Put(tc, ep, 0)
        fc0 == IF known THEN fc ELSE Put(fc, ep, 0)
    IN  [ total_checks |->
              IF success THEN Put(tc0, ep, Get(tc0, ep) + 1) ELSE tc0,
          failure_counts |->
              IF success THEN fc0 ELSE Put(fc0, ep, Get(fc0, ep) + 1) ]

\* AlertManager.record_check: the counters after recording one check
record_check(fc, tc, ep, success) ==
    LET known == ep \in DOMAIN tc
        tc0 == IF known THEN tc ELSE Put(tc, ep, 0)
        fc0 == IF known THEN fc ELSE Put(fc, ep, 0)
    IN  [ total_checks |-> Put(tc0, ep, Get(tc0, ep) + 1),
          failure_counts |->
              IF success THEN fc0 ELSE Put(fc0, ep, Get(fc0, ep) + 1) ]

\* variant: the failure rule with ">" for ">="
FailureRule_Strict(fc, ep, success) == ~success /\ Get(fc, ep) > min_failures

\* "not success and self.failure_counts[endpoint] >= self.min_failures"
FailureRule(fc, ep, success) == ~success /\ Get(fc, ep) >= min_failures

\* variant: the rate rule reading total_checks as it was before the
\* current check was recorded
RateRule_BeforeUpdate(fc, tc, ep) ==
    /\ Get(tc, ep) - 1 >= MinSampleSize
    /\ 100 * (Get(tc, ep) - 1 - Get(fc, ep)) < alert_threshold * (Get(tc, ep) - 1)

\* variant: the rate rule without its minimum sample size
RateRule_NoMinimum(fc, tc, ep) ==
    100 * (Get(tc, ep) - Get(fc, ep)) < alert_threshold * Get(tc, ep)

\* "total_checks >= 10" and "1 - failures/total < alert_threshold",
\* the threshold in percent and the comparison cross-multiplied
RateRule(fc, tc, ep) ==
    /\ Get(tc, ep) >= MinSampleSize
    /\ 100 * (Get(tc, ep) - Get(fc, ep)) < alert_threshold * Get(tc, ep)

\* variant: send_alert without its first guard
Sends_Always == TRUE

\* send_alert issues a webhook request only past its first guard
Sends == enabled

\* the payload of one webhook request
Alert(sev, ep, fc, tc) ==
    [ severity |-> sev, endpoint |-> ep,
      failures |-> Get(fc, ep), total_checks |-> Get(tc, ep) ]

\* variant: a success clears the counter of every endpoint
ResetOnSuccess_AllEndpoints(fc, ep, success) ==
    IF success THEN [k \in DOMAIN fc |-> 0] ELSE fc

\* variant: a success leaves the failure count as it is
ResetOnSuccess_Never(fc, ep, success) == fc

\* "if success: self.failure_counts[endpoint] = 0"
ResetOnSuccess(fc, ep, success) == IF success THEN Put(fc, ep, 0) ELSE fc

\* variant: every 2xx status counts as delivered
Accepted_Any2xx(status) == status \in 200..299

\* "response.status_code in [200, 201, 202, 204]"
Accepted(status) == status \in {200, 201, 202, 204}

\* send_alert: whether it issues the webhook request, and the bool it
\* returns when the request ends with wo; "except Exception" returns
\* False
send_alert(wo) ==
    IF ~Sends
    THEN [requested |-> FALSE, returned |-> FALSE]
    ELSE [requested |-> TRUE,
          returned |-> wo.kind = "status" /\ Accepted(wo.status)]

\* variant: only the failure counts are cleared
reset_stats_FailuresOnly(fc, tc) ==
    [failure_counts |-> <<>>, total_checks |-> tc]

\* reset_stats: both dicts cleared
reset_stats(fc, tc) == [failure_counts |-> <<>>, total_checks |-> <<>>]

\* get_stats: one entry per key of total_checks; the formatted
\* success_rate string is left out
get_stats(fc, tc) ==
    [ep \in DOMAIN tc |->
        [ total_checks |-> tc[ep],
          failures |-> fc[ep],
          successes |-> tc[ep] - fc[ep] ]]

---------------------------------------------------------------------------
(* check_endpoint and the async_retry wrapper around it *)

\* the configuration a task's call was given
ConfigOf(t) == CHOOSE c \in Lookup(endpoints, task_endpoint[t]) : TRUE

\* variant: the expected_content test is left out
CheckSuccess_StatusOnly(config, out) ==
    out.status_code = config.expected_status

\* lines 187-197: status must match, and a truthy expected_content
\* must occur in the body
CheckSuccess(config, out) ==
    /\ out.status_code = config.expected_status
    /\ ~(Truthy(config.expected_content)
         /\ \E s \in config.expected_content : ~Contains(s, out.text))

\* the success argument check_endpoint hands to check_and_alert
ReportedSuccess(t, out) ==
    IF out.kind = "return" THEN CheckSuccess(ConfigOf(t), out) ELSE FALSE

\* what the wrapper hands to its caller for an outcome of the last call
WrapperResult(out) ==
    IF out.kind = "return"
    THEN [kind |-> "return", value |-> <<out.response_time, out.status_code>>]
    ELSE out

\* variant: the budget test is off by one, "attempt == attempts"
LastAttempt_OffByOne(t) == attempt[t] = attempts

\* async_retry: an exception ends the loop only when
\* "attempt == attempts - 1"
LastAttempt(t) == attempt[t] = attempts - 1

\* variant: the wrapper awaits the call without returning its value
Completes_NoReturn(t, out) == LastAttempt(t)

\* variant: an expectation mismatch is retried like an exception
Completes_RetryMismatch(t, out) ==
    \/ out.kind = "return" /\ CheckSuccess(ConfigOf(t), out)
    \/ LastAttempt(t)

\* async_retry: "return await func(...)" ends the loop; an exception
\* ends it on the last attempt
Completes(t, out) == out.kind = "return" \/ LastAttempt(t)

\* variant: the slot is released on the returning path only
BoundedTail_LeakOnRaise(out) ==
    IF lt_pc = "gather"
    THEN /\ response_times' =
              IF out.kind = "return"
              THEN Append(response_times, out.response_time)
              ELSE response_times
         /\ status_codes' =
              IF out.kind = "return"
              THEN Append(status_codes, Some(out.status_code))
              ELSE Append(status_codes, None)
         /\ semaphore' = IF out.kind = "return" THEN semaphore + 1 ELSE semaphore
         /\ UNCHANGED <<lt_pc, num_requests, concurrency, summary>>
    ELSE UNCHANGED ltvars

\* load_test.bounded_check after check_endpoint: record, release the slot
BoundedTail(out) ==
    IF lt_pc = "gather"
    THEN /\ response_times' =
              IF out.kind = "return"
              THEN Append(response_times, out.response_time)
              ELSE response_times
         /\ status_codes' =
              IF out.kind = "return"
              THEN Append(status_codes, Some(out.status_code))
              ELSE Append(status_codes, None)
         /\ semaphore' = semaphore + 1
         /\ UNCHANGED <<lt_pc, num_requests, concurrency, summary>>
    ELSE UNCHANGED ltvars

\* variant: the delay is slept after every attempt, the last included
Conclude_SleepsAlways(t, out) ==
    /\ sleeps' = [sleeps EXCEPT ![t] = @ + 1]
    /\ IF Completes(t, out)
       THEN /\ pc' = [pc EXCEPT ![t] = "done"]
            /\ result' = [result EXCEPT ![t] = WrapperResult(out)]
            /\ finished' = Append(finished, t)
            /\ BoundedTail(out)
       ELSE /\ pc' = [pc EXCEPT ![t] = "sleep"]
            /\ UNCHANGED <<result, finished>>
            /\ UNCHANGED ltvars

\* the wrapper after the wrapped call produced out: return, raise or sleep
Conclude(t, out) ==
    IF Completes(t, out)
    THEN /\ pc' = [pc EXCEPT ![t] = "done"]
         /\ result' = [result EXCEPT ![t] = WrapperResult(out)]
         /\ finished' = Append(finished, t)
         /\ sleeps' = sleeps
         /\ BoundedTail(out)
    ELSE /\ pc' = [pc EXCEPT ![t] = "sleep"]
         /\ sleeps' = [sleeps EXCEPT ![t] = @ + 1]
         /\ UNCHANGED <<result, finished>>
         /\ UNCHANGED ltvars

\* check_and_alert from "Reset failure count on success" to its return
ExitStage(t, out, fc, tc, al) ==
    /\ failure_counts' = ResetOnSuccess(fc, task_endpoint[t], ReportedSuccess(t, out))
    /\ total_checks' = tc
    /\ alerts' = al
    /\ Conclude(t, out)

\* check_and_alert from "Alert on success rate threshold"
RateStage(t, out, fc, tc, al) ==
    IF RateRule(fc, tc, task_endpoint[t]) /\ Sends
    THEN /\ alerts' = Append(al, Alert("warning", task_endpoint[t], fc, tc))
         /\ failure_counts' = fc
         /\ total_checks' = tc
         /\ pc' = [pc EXCEPT ![t] = "send_warning"]
         /\ UNCHANGED <<result, finished, sleeps>>
         /\ UNCHANGED ltvars
    ELSE ExitStage(t, out, fc, tc, al)

\* check_and_alert from "Alert on immediate failure threshold"
FailureStage(t, out, fc, tc, al) ==
    IF FailureRule(fc, task_endpoint[t], ReportedSuccess(t, out)) /\ Sends
    THEN /\ alerts' = Append(al, Alert("error", task_endpoint[t], fc, tc))
         /\ failure_counts' = fc
         /\ total_checks' = tc
         /\ pc' = [pc EXCEPT ![t] = "send_error"]
         /\ UNCHANGED <<result, finished, sleeps>>
         /\ UNCHANGED ltvars
    ELSE RateStage(t, out, fc, tc, al)

\* AlertManager.check_and_alert as called by check_endpoint
check_and_alert(t, out) ==
    IF ~alert_on_failure
    THEN /\ UNCHANGED amvars
         /\ Conclude(t, out)
    ELSE LET rec == record_check(failure_counts, total_checks,
                                 task_endpoint[t], ReportedSuccess(t, out))
         IN  FailureStage(t, out, rec.failure_counts, rec.total_checks, alerts)

\* check_endpoint from the completion of client.request to its return or
\* raise: "if self.alert_manager: await ...check_and_alert(...)"
AfterRequest(t, out) ==
    /\ last_outcome' = [last_outcome EXCEPT ![t] = out]
    /\ raises' = [raises EXCEPT ![t] = IF out.kind = "raise" THEN @ + 1 ELSE @]
    /\ IF alert_manager
       THEN /\ reported' = [reported EXCEPT ![t] = Append(@, ReportedSuccess(t, out))]
            /\ check_and_alert(t, out)
       ELSE /\ reported' = reported
            /\ UNCHANGED amvars
            /\ Conclude(t, out)

\* the wrapper calls the wrapped function: check_endpoint runs up to
\* "await client.request(...)"
Call(t) ==
    /\ calls' = [calls EXCEPT ![t] = @ + 1]
    /\ pc' = [pc EXCEPT ![t] = "request"]

\* the request completes with a response
Respond(t, lat, st, body) ==
    /\ pc[t] = "request"
    /\ AfterRequest(t, Return(lat, st, body))
    /\ UNCHANGED <<cmvars, apivars, cfgvars, rcvars, task_endpoint, attempt, calls>>

\* the request raises (connection refused, timeout, ...)
Fail(t, e) ==
    /\ pc[t] = "request"
    /\ AfterRequest(t, Raise(e))
    /\ UNCHANGED <<cmvars, apivars, cfgvars, rcvars, task_endpoint, attempt, calls>>

\* variant: send_alert without its try/except, an exception of the POST
\* leaves check_and_alert and check_endpoint
AfterDelivery_Propagate(out, wo) ==
    IF wo.kind = "raise" THEN Raise(wo.error) ELSE out

\* what check_endpoint goes on with once send_alert has ended with wo:
\* the "except Exception" of send_alert returns False, check_and_alert
\* drops the returned bool, so it is the outcome of the probe
AfterDelivery(out, wo) == out

\* the request has completed with a response and a metric call inside
\* the try block raises (REQUEST_DURATION.observe, ENDPOINT_UP.set,
\* ERROR_COUNTER.inc): the except branch of check_endpoint runs, where the
\* metric calls raise again and the new exception leaves at once, or
\* they pass, check_and_alert(endpoint, False, ...) is called and the
\* exception is re-raised
MetricFault(t, again) ==
    /\ use_prometheus
    /\ pc[t] = "request"
    /\ IF again
       THEN /\ last_outcome' = [last_outcome EXCEPT ![t] = Raise("MetricError")]
            /\ raises' = [raises EXCEPT ![t] = @ + 1]
            /\ reported' = reported
            /\ UNCHANGED amvars
            /\ Conclude(t, Raise("MetricError"))
       ELSE AfterRequest(t, Raise("MetricError"))
    /\ UNCHANGED <<cmvars, apivars, cfgvars, rcvars, task_endpoint, attempt, calls>>

\* the webhook POST of send_alert ends with wo (a status or an
\* exception), send_alert returns and check_and_alert goes on
WebhookDone(t, wo) ==
    /\ pc[t] \in {"send_error", "send_warning"}
    /\ last_call' = Some([op |-> "send_alert", outcome |-> wo,
                          requested |-> send_alert(wo).requested,
                          returned |-> send_alert(wo).returned])
    /\ IF pc[t] = "send_error"
       THEN RateStage(t, AfterDelivery(last_outcome[t], wo),
                      failure_counts, total_checks, alerts)
       ELSE ExitStage(t, AfterDelivery(last_outcome[t], wo),
                      failure_counts, total_checks, alerts)
    /\ UNCHANGED <<cmvars, checks, resets, cfgvars, rcvars, task_endpoint, attempt,
                   calls, raises, last_outcome, reported>>

\* asyncio.sleep(delay) ends: the next iteration of the wrapper's loop
Wake(t) ==
    /\ pc[t] = "sleep"
    /\ attempt' = [attempt EXCEPT ![t] = @ + 1]
    /\ Call(t)
    /\ UNCHANGED <<cmvars, apivars, cfgvars, amvars, rcvars, ltvars, task_endpoint, raises,
                   sleeps, last_outcome, reported, result, finished>>

---------------------------------------------------------------------------
(* run_checks *)

NewTasks(n, v) == [t \in 1..n |-> v]

\* run_checks up to "await asyncio.gather(...)": the list comprehension
\* makes one coroutine per dict item
StartCycle ==
    /\ rc_pc' = "gather"
    /\ pc' = NewTasks(Len(endpoints), "new")
    /\ task_endpoint' = [t \in 1..Len(endpoints) |-> endpoints[t].path]
    /\ attempt' = NewTasks(Len(endpoints), 0)
    /\ calls' = NewTasks(Len(endpoints), 0)
    /\ raises' = NewTasks(Len(endpoints), 0)
    /\ sleeps' = NewTasks(Len(endpoints), 0)
    /\ last_outcome' = NewTasks(Len(endpoints), Pending)
    /\ reported' = NewTasks(Len(endpoints), <<>>)
    /\ result' = NewTasks(Len(endpoints), Pending)
    /\ finished' = <<>>
    /\ UNCHANGED <<apivars, cfgvars, amvars, results, ltvars>>

\* one run_checks call made on its own
RunChecks ==
    /\ rc_pc = "idle"
    /\ cm_pc = "idle"
    /\ StartCycle
    /\ UNCHANGED cmvars

\* variant: the wrapper invokes the function before it looks at the budget
Start_CallsFirst(t) ==
    /\ rc_pc = "gather"
    /\ pc[t] = "new"
    /\ Call(t)
    /\ UNCHANGED <<result, finished>>
    /\ UNCHANGED <<cmvars, apivars, cfgvars, amvars, rcvars, ltvars, task_endpoint, attempt,
                   raises, sleeps, last_outcome, reported>>

\* the event loop runs a gathered task for the first time: the wrapper
\* enters "for attempt in range(attempts)"
Start(t) ==
    /\ rc_pc = "gather"
    /\ pc[t] = "new"
    /\ IF attempts = 0
       THEN /\ pc' = [pc EXCEPT ![t] = "done"]
            /\ result' = [result EXCEPT ![t] = ReturnNone]
            /\ finished' = Append(finished, t)
            /\ calls' = calls
       ELSE /\ Call(t)
            /\ UNCHANGED <<result, finished>>
    /\ UNCHANGED <<cmvars, apivars, cfgvars, amvars, rcvars, ltvars, task_endpoint, attempt,
                   raises, sleeps, last_outcome, reported>>

\* variant: results collected as the tasks complete
GatherResults_CompletionOrder == [i \in DOMAIN pc |-> result[finished[i]]]

\* asyncio.gather(*tasks, ...): the result list follows the argument
\* order, whatever the completion order
GatherResults == [i \in DOMAIN pc |-> result[i]]

\* variant: return_exceptions=False, a task's exception leaves run_checks
GatherOutcome_Propagate ==
    IF \E t \in Tasks : result[t].kind = "raise"
    THEN [rc_pc |-> "raised", results |-> <<>>]
    ELSE [rc_pc |-> "returned", results |-> GatherResults]

\* return_exceptions=True: an exception is a result like any other, so
\* the await at line 241 ends only when every task has ended and
\* run_checks returns the list
GatherOutcome == [rc_pc |-> "returned", results |-> GatherResults]

\* variant: the await ends with the first task that ends
GatherReady_FirstCompleted == \E t \in Tasks : pc[t] = "done"

\* "await asyncio.gather(*tasks, ...)" resumes when every task has ended
GatherReady == \A t \in Tasks : pc[t] = "done"

\* where continuous_monitoring is once run_checks has returned: the
\* statistics are logged and the loop suspends in asyncio.wait_for
AfterRunChecks == IF cm_pc = "cycle" THEN "wait" ELSE cm_pc

Gather ==
    /\ rc_pc = "gather"
    /\ GatherReady
    /\ results' = GatherOutcome.results
    /\ rc_pc' = GatherOutcome.rc_pc
    /\ cm_pc' = AfterRunChecks
    /\ UNCHANGED <<shutdown_event, cycle, cycle_error, signal_at>>
    /\ UNCHANGED <<apivars, cfgvars, amvars, taskvars, ltvars>>

---------------------------------------------------------------------------
(* One run_checks cycle of a freshly constructed monitor *)

ConfigInit ==
    /\ attempts \in 0..MaxAttempts
    /\ alert_manager \in BOOLEAN
    /\ alert_on_failure \in BOOLEAN
    /\ enabled \in BOOLEAN
    /\ min_failures \in 1..MaxMinFailures
    /\ alert_threshold = DefaultAlertThresholdPct
    /\ use_prometheus = FALSE
    \* without an AlertManager its settings do not exist
    /\ ~alert_manager => (alert_on_failure /\ ~enabled)
    \* min_failures is read only by the failure rule, whose one effect is
    \* a send_alert that goes out only with alert_on_failure and a webhook
    /\ ~(alert_manager /\ alert_on_failure /\ enabled) => min_failures = 1

StateInit ==
    /\ failure_counts = <<>>
    /\ total_checks = <<>>
    /\ alerts = <<>>
    /\ pc = <<>>
    /\ task_endpoint = <<>>
    /\ attempt = <<>>
    /\ calls = <<>>
    /\ raises = <<>>
    /\ sleeps = <<>>
    /\ last_outcome = <<>>
    /\ reported = <<>>
    /\ result = <<>>
    /\ finished = <<>>
    /\ rc_pc = "idle"
    /\ results = <<>>
    /\ lt_pc = "idle"
    /\ num_requests = 0
    /\ concurrency = 1
    /\ semaphore = 0
    /\ response_times = <<>>
    /\ status_codes = <<>>
    /\ summary = None
    /\ cm_pc = "idle"
    /\ shutdown_event = FALSE
    /\ cycle = 0
    /\ cycle_error = FALSE
    /\ signal_at = None
    /\ checks = [ep \in AlertEndpoints |-> <<>>]
    /\ last_call = None
    /\ resets = 0

Init ==
    /\ ConfigInit
    /\ endpoints \in Configurations
    /\ StateInit

Next ==
    \/ RunChecks
    \/ \E t \in Tasks : Start(t)
    \/ \E t \in Tasks, lat \in Latencies, st \in Statuses, body \in Bodies :
           Respond(t, lat, st, body)
    \/ \E t \in Tasks, e \in Errors : Fail(t, e)
    \/ \E t \in Tasks, wo \in WebhookAccepts : WebhookDone(t, wo)
    \/ \E t \in Tasks : Wake(t)
    \/ Gather

Spec == Init /\ [][Next]_vars

---------------------------------------------------------------------------
(* load_test *)

RECURSIVE SumSeq(_)
SumSeq(s) == IF s = <<>> THEN 0 ELSE Head(s) + SumSeq(Tail(s))

Count(s, v) == Cardinality({ i \in DOMAIN s : s[i] = v })

\* sorted(data)
Sorted(s) ==
    CHOOSE r \in [DOMAIN s -> { s[i] : i \in DOMAIN s }] :
        /\ \A i, j \in DOMAIN s : i < j => r[i] <= r[j]
        /\ \A v \in { s[i] : i \in DOMAIN s } : Count(r, v) = Count(s, v)

\* statistics are exact fractions <<numerator, denominator>>
Zero == <<0, 1>>

\* statistics.mean
Mean(data) == << SumSeq(data), Len(data) >>

\* statistics.median: the middle value, or the mean of the two middle ones
Median(data) ==
    LET n == Len(data)
        d == Sorted(data)
    IN  IF n % 2 = 1
        THEN << d[(n + 1) \div 2], 1 >>
        ELSE << d[n \div 2] + d[n \div 2 + 1], 2 >>

\* statistics.quantiles(data, n=20)[-1], method "exclusive", for two or
\* more data points: the cut point i = 19 of 20
P95(data) ==
    LET ld == Len(data)
        d == Sorted(data)
        m == ld + 1
        j0 == (19 * m) \div 20
        j == IF j0 < 1 THEN 1 ELSE IF j0 > ld - 1 THEN ld - 1 ELSE j0
        delta == 19 * m - j * 20
    IN  << d[j] * (20 - delta) + d[j + 1] * delta, 20 >>

Stats(avg, med, p95, lo, hi) ==
    [ kind |-> "stats", average_response_time |-> avg,
      median_response_time |-> med, p95_response_time |-> p95,
      min_response_time |-> lo, max_response_time |-> hi ]

StatisticsError == [kind |-> "raise"]

\* variant: the statistics are computed without the emptiness test
LatencyStats_NoGuard(times) ==
    IF Len(times) >= 2
    THEN { Stats(Mean(times), Median(times), P95(times),
                 << Sorted(times)[1], 1 >>, << Sorted(times)[Len(times)], 1 >>) }
    ELSE { StatisticsError }

\* lines 278-287: what the statistics block can end with.  For a single
\* sample statistics.quantiles raises StatisticsError before Python 3.13
\* and returns the sample from 3.13 on: both are possible outcomes.
LatencyStats(times) ==
    IF times # <<>>
    THEN IF Len(times) >= 2
         THEN { Stats(Mean(times), Median(times), P95(times),
                      << Sorted(times)[1], 1 >>,
                      << Sorted(times)[Len(times)], 1 >>) }
         ELSE { StatisticsError,
                Stats(Mean(times), Median(times), << times[1], 1 >>,
                      << times[1], 1 >>, << times[1], 1 >>) }
    ELSE { Stats(Zero, Zero, Zero, Zero, Zero) }

\* variant: every probe that returned a status counts as successful
SuccessfulRequests_AnyStatus(codes) ==
    Cardinality({ i \in DOMAIN codes : codes[i] # None })

\* "sum(1 for code in status_codes if code == 200)"
SuccessfulRequests(codes) == Count(codes, Some(LoadTestOkStatus))

\* "failed_requests = num_requests - successful_requests"
FailedRequests(n, successful) == n - successful

\* load_test up to "await asyncio.gather(*tasks)": the semaphore, the two
\* lists and one bounded_check coroutine per request
LoadTest(n, c) ==
    /\ lt_pc = "idle"
    /\ lt_pc' = "gather"
    /\ num_requests' = n
    /\ concurrency' = c
    /\ semaphore' = c
    /\ response_times' = <<>>
    /\ status_codes' = <<>>
    /\ summary' = summary
    /\ pc' = NewTasks(n, "new")
    /\ task_endpoint' = NewTasks(n, "/")
    /\ attempt' = NewTasks(n, 0)
    /\ calls' = NewTasks(n, 0)
    /\ raises' = NewTasks(n, 0)
    /\ sleeps' = NewTasks(n, 0)
    /\ last_outcome' = NewTasks(n, Pending)
    /\ reported' = NewTasks(n, <<>>)
    /\ result' = NewTasks(n, Pending)
    /\ finished' = <<>>
    /\ UNCHANGED <<cmvars, apivars, cfgvars, amvars, rcvars>>

\* variant: a semaphore that never blocks
Acquirable_Always == TRUE

\* asyncio.Semaphore.acquire proceeds only while the value is positive
Acquirable == semaphore > 0

\* variant: bounded_check does not look the endpoint up
EndsAtOnce_KeyIgnored == attempts = 0

\* bounded_check ending inside its first step, without a request:
\* self.endpoints["/"] raises KeyError, or the wrapper with attempts = 0
\* returns None and the tuple unpacking raises TypeError; either way the
\* except branch appends None and the slot is released at once
EndsAtOnce == Lookup(endpoints, "/") = {} \/ attempts = 0

\* a bounded_check task runs for the first time: "async with semaphore"
\* and the call of check_endpoint up to its first await
BoundedCheck(t) ==
    /\ lt_pc = "gather"
    /\ pc[t] = "new"
    /\ Acquirable
    /\ IF EndsAtOnce
       THEN /\ pc' = [pc EXCEPT ![t] = "done"]
            /\ result' = [result EXCEPT ![t] =
                   IF Lookup(endpoints, "/") = {}
                   THEN Raise("KeyError") ELSE ReturnNone]
            /\ finished' = Append(finished, t)
            /\ status_codes' = Append(status_codes, None)
            /\ UNCHANGED <<calls, semaphore>>
       ELSE /\ Call(t)
            /\ semaphore' = semaphore - 1
            /\ UNCHANGED <<result, finished, status_codes>>
    /\ UNCHANGED <<cmvars, apivars, cfgvars, amvars, rcvars, task_endpoint, attempt, raises,
                   sleeps, last_outcome, reported, lt_pc, num_requests,
                   concurrency, response_times, summary>>

\* the tasks inside the semaphore-guarded section
InFlight ==
    { t \in Tasks : pc[t] \in {"request", "send_error", "send_warning", "sleep"} }

\* lines 275-299: after gather, the counts, the statistics and the
\* returned dict, or the exception of the statistics block
Summarize ==
    /\ lt_pc = "gather"
    /\ \A t \in Tasks : pc[t] = "done"
    /\ \E st \in LatencyStats(response_times) :
          IF st.kind = "raise"
          THEN /\ lt_pc' = "raised"
               /\ summary' = summary
          ELSE /\ lt_pc' = "returned"
               /\ summary' = Some(
                    [ total_requests |-> num_requests,
                      concurrency |-> concurrency,
                      successful_requests |-> SuccessfulRequests(status_codes),
                      failed_requests |->
                          FailedRequests(num_requests,
                                         SuccessfulRequests(status_codes)),
                      average_response_time |-> st.average_response_time,
                      median_response_time |-> st.median_response_time,
                      p95_response_time |-> st.p95_response_time,
                      min_response_time |-> st.min_response_time,
                      max_response_time |-> st.max_response_time ])
    /\ UNCHANGED <<cmvars, apivars, cfgvars, amvars, taskvars, rcvars, num_requests,
                   concurrency, semaphore, response_times, status_codes>>

(* One load_test run of a freshly constructed monitor *)

InitLoad ==
    /\ ConfigInit
    /\ attempts <= MaxLoadAttempts
    \* every failed check of a load test may alert
    /\ min_failures = 1
    /\ endpoints \in LoadConfigurations
    /\ StateInit

NextLoad ==
    \/ \E n \in 0..MaxRequests, c \in 1..MaxConcurrency : LoadTest(n, c)
    \/ \E t \in Tasks : BoundedCheck(t)
    \/ \E t \in Tasks, lat \in Latencies, st \in Statuses, body \in LoadBodies :
           Respond(t, lat, st, body)
    \/ \E t \in Tasks, e \in LoadErrors : Fail(t, e)
    \/ \E t \in Tasks, wo \in WebhookAccepts : WebhookDone(t, wo)
    \/ \E t \in Tasks : Wake(t)
    \/ Summarize

SpecLoad == InitLoad /\ [][NextLoad]_vars

\* the load tests checked for progress: alerts on and sent on every
\* failure, one try or one retry
InitLoadFair ==
    /\ InitLoad
    /\ attempts \in {1, 2}
    /\ alert_manager /\ alert_on_failure /\ enabled

\* the steps of a load test once it has been called
LoadProgress ==
    \/ \E t \in Tasks : BoundedCheck(t)
    \/ \E t \in Tasks, lat \in Latencies, st \in Statuses, body \in LoadBodies :
           Respond(t, lat, st, body)
    \/ \E t \in Tasks, e \in LoadErrors : Fail(t, e)
    \/ \E t \in Tasks, wo \in WebhookAccepts : WebhookDone(t, wo)
    \/ \E t \in Tasks : Wake(t)
    \/ Summarize

\* the event loop runs whatever is ready, every request and every webhook
\* POST ends (timeout=) and every asyncio.sleep elapses
SpecLoadFair == InitLoadFair /\ [][NextLoad]_vars /\ WF_vars(LoadProgress)

---------------------------------------------------------------------------
(* continuous_monitoring and the signal handler of main *)

\* the configurations and responses of the continuous runs
ContConfigurations == { <<RootConfig, GenerateConfig>> }
ContLatencies == {1}
\* every response carries status 200: "/" succeeds on it, "/api/generate"
\* (expecting 201) fails on it without a retry; a request may also raise
ContStatuses == {200}
\* the retry budgets of the continuous runs: none, one try, one retry
ContAttempts == {0, 1, 2}

\* variant: "while True"
LoopContinues_Always == TRUE

\* "while not self.shutdown_event.is_set()"
LoopContinues == ~shutdown_event

\* variant: no try/except around the cycle
AfterCycleError_Propagate == "raised"

\* "except Exception as e: logger.error(...)": the loop goes on to the
\* interval wait
AfterCycleError == "wait"

\* the loop from its condition to the next suspension: it leaves the
\* loop, or begins a cycle; httpx.AsyncClient(verify=True) in run_checks
\* raises (err) or the probes are created and gathered
Iteration(err) ==
    IF ~LoopContinues
    THEN /\ cm_pc' = "stopped"
         /\ UNCHANGED <<cycle, cycle_error, taskvars, rcvars>>
    ELSE /\ cycle < MaxCycles
         /\ cycle' = cycle + 1
         /\ cycle_error' = err
         /\ IF err
            THEN /\ cm_pc' = AfterCycleError
                 /\ UNCHANGED <<taskvars, rcvars>>
            ELSE /\ cm_pc' = "cycle"
                 /\ StartCycle

\* continuous_monitoring(interval) is called and runs to its first await
ContinuousMonitoring(err) ==
    /\ cm_pc = "idle"
    /\ rc_pc = "idle"
    /\ Iteration(err)
    /\ UNCHANGED <<shutdown_event, signal_at>>
    /\ UNCHANGED <<apivars, cfgvars, amvars, results, ltvars>>

\* variant: "except asyncio.TimeoutError: break"
WaitTimeout_Break(err) ==
    /\ cm_pc = "wait"
    /\ cm_pc' = "stopped"
    /\ UNCHANGED <<shutdown_event, cycle, cycle_error, signal_at>>
    /\ UNCHANGED <<apivars, cfgvars, amvars, taskvars, rcvars, ltvars>>

\* asyncio.wait_for times out, whether or not the event has been set in
\* the meantime: "except asyncio.TimeoutError: continue"
WaitTimeout(err) ==
    /\ cm_pc = "wait"
    /\ Iteration(err)
    /\ UNCHANGED <<shutdown_event, signal_at>>
    /\ UNCHANGED <<apivars, cfgvars, amvars, results, ltvars>>

\* variant: the set event ends the run wherever the loop is, the probes
\* of a running cycle left behind
WaitWoken_Anywhere(err) ==
    /\ cm_pc \in {"cycle", "wait"}
    /\ shutdown_event
    /\ cm_pc' = "stopped"
    /\ UNCHANGED <<shutdown_event, cycle, cycle_error, signal_at>>
    /\ UNCHANGED <<apivars, cfgvars, amvars, taskvars, rcvars, ltvars>>

\* shutdown_event.wait() completes inside wait_for: the try block ends
\* and the loop condition is evaluated
WaitWoken(err) ==
    /\ cm_pc = "wait"
    /\ shutdown_event
    /\ Iteration(err)
    /\ UNCHANGED <<shutdown_event, signal_at>>
    /\ UNCHANGED <<apivars, cfgvars, amvars, results, ltvars>>

\* signal_handler: "monitor.shutdown_event.set()", at any moment between
\* two steps of the event loop
Signal ==
    /\ ~shutdown_event
    /\ shutdown_event' = TRUE
    /\ signal_at' = Some([cm_pc |-> cm_pc, cycle |-> cycle])
    /\ UNCHANGED <<cm_pc, cycle, cycle_error>>
    /\ UNCHANGED <<apivars, cfgvars, amvars, taskvars, rcvars, ltvars>>

(* A continuous run of a freshly constructed monitor *)

InitCont ==
    /\ ConfigInit
    /\ attempts \in ContAttempts
    /\ endpoints \in ContConfigurations
    /\ StateInit

\* the steps of the program and of the servers it talks to
ContProgress ==
    \/ \E err \in BOOLEAN : ContinuousMonitoring(err)
    \/ \E t \in Tasks : Start(t)
    \/ \E t \in Tasks, lat \in ContLatencies, st \in ContStatuses, body \in LoadBodies :
           Respond(t, lat, st, body)
    \/ \E t \in Tasks, e \in LoadErrors : Fail(t, e)
    \/ \E t \in Tasks, wo \in WebhookAccepts : WebhookDone(t, wo)
    \/ \E t \in Tasks : Wake(t)
    \/ Gather
    \/ \E err \in BOOLEAN : WaitTimeout(err)
    \/ \E err \in BOOLEAN : WaitWoken(err)

NextCont ==
    \/ ContProgress
    \/ Signal

SpecCont == InitCont /\ [][NextCont]_vars

\* the runs checked for progress: one retry, and alerts sent once an
\* endpoint has failed min_failures times in a row
InitContFair ==
    /\ InitCont
    /\ attempts = 2
    /\ alert_manager /\ alert_on_failure /\ enabled
    /\ min_failures = MaxMinFailures

\* the event loop runs whatever is ready, every request and every webhook
\* POST ends (timeout=), every asyncio.sleep and every wait_for timeout
\* elapses; no signal need ever arrive
SpecContFair == InitContFair /\ [][NextCont]_vars /\ WF_vars(ContProgress)

(* A continuous run whose webhook may answer anything or not at all *)

\* the responses of these runs: 200 succeeds on "/", 500 fails on it
DeliverStatuses == {200, 500}

\* AlertManager(webhook_url=..., min_failures=1): every failed check
\* sends an error alert
InitDeliver ==
    /\ attempts = 2
    /\ endpoints = <<RootConfig>>
    /\ alert_manager = TRUE
    /\ alert_on_failure = TRUE
    /\ enabled = TRUE
    /\ min_failures = 1
    /\ alert_threshold = DefaultAlertThresholdPct
    /\ use_prometheus = FALSE
    /\ StateInit

NextDeliver ==
    \/ ContinuousMonitoring(FALSE)
    \/ \E t \in Tasks : Start(t)
    \/ \E t \in Tasks, lat \in ContLatencies, st \in DeliverStatuses, body \in LoadBodies :
           Respond(t, lat, st, body)
    \/ \E t \in Tasks, e \in LoadErrors : Fail(t, e)
    \/ \E t \in Tasks, wo \in WebhookOutcomes : WebhookDone(t, wo)
    \/ \E t \in Tasks : Wake(t)
    \/ Gather
    \/ WaitTimeout(FALSE)

SpecDeliver == InitDeliver /\ [][NextDeliver]_vars

(* One run_checks cycle with the exporter on, against a server that
   answers every request as expected *)

\* the one response of these runs: it meets the expectation of both
\* endpoints
MetricStatuses == {200}

\* OllamaMonitor(..., use_prometheus=True, alert_manager=AlertManager(
\* webhook_url=..., min_failures=1)), one retry
InitMetrics ==
    /\ attempts = 2
    /\ endpoints = <<RootConfig, TagsConfig>>
    /\ alert_manager = TRUE
    /\ alert_on_failure = TRUE
    /\ enabled = TRUE
    /\ min_failures = 1
    /\ alert_threshold = DefaultAlertThresholdPct
    /\ use_prometheus = TRUE
    /\ StateInit

NextMetrics ==
    \/ RunChecks
    \/ \E t \in Tasks : Start(t)
    \/ \E t \in Tasks, lat \in ContLatencies, st \in MetricStatuses, body \in LoadBodies :
           Respond(t, lat, st, body)
    \/ \E t \in Tasks, again \in BOOLEAN : MetricFault(t, again)
    \/ \E t \in Tasks, wo \in WebhookAccepts : WebhookDone(t, wo)
    \/ \E t \in Tasks : Wake(t)
    \/ Gather

SpecMetrics == InitMetrics /\ [][NextMetrics]_vars

(* A continuous run against a server that is down: every request raises *)

\* the defaults RETRY_ATTEMPTS = 3 and min_failures = 3, a webhook set
InitDown ==
    /\ attempts = 3
    /\ endpoints = <<RootConfig, TagsConfig>>
    /\ alert_manager = TRUE
    /\ alert_on_failure = TRUE
    /\ enabled = TRUE
    /\ min_failures = 3
    /\ alert_threshold = DefaultAlertThresholdPct
    /\ use_prometheus = FALSE
    /\ StateInit

NextDown ==
    \/ ContinuousMonitoring(FALSE)
    \/ \E t \in Tasks : Start(t)
    \/ \E t \in Tasks, e \in LoadErrors : Fail(t, e)
    \/ \E t \in Tasks, wo \in WebhookAccepts : WebhookDone(t, wo)
    \/ \E t \in Tasks : Wake(t)
    \/ Gather
    \/ WaitTimeout(FALSE)

SpecDown == InitDown /\ [][NextDown]_vars

---------------------------------------------------------------------------
(* AlertManager driven by a caller that awaits one check_and_alert call
   after the other *)

\* the calls one run makes for an endpoint: MaxChecks for "/", enough to
\* pass the minimum sample size, and MaxOtherChecks for any other
CheckCap(ep) == IF ep = "/" THEN MaxChecks ELSE MaxOtherChecks

\* the severities of the webhook requests a call added to the log
Emitted(before, after) ==
    [i \in 1..(Len(after) - Len(before)) |-> after[Len(before) + i].severity]

\* one awaited call check_and_alert(ep, success), lines 113-175, each
\* send_alert awaited to its end
CheckAndAlert(ep, success) ==
    /\ Len(checks[ep]) < CheckCap(ep)
    /\ LET rec == record_check(failure_counts, total_checks, ep, success)
           fc == rec.failure_counts
           tc == rec.total_checks
           al1 == IF FailureRule(fc, ep, success) /\ Sends
                  THEN Append(alerts, Alert("error", ep, fc, tc))
                  ELSE alerts
           al2 == IF RateRule(fc, tc, ep) /\ Sends
                  THEN Append(al1, Alert("warning", ep, fc, tc))
                  ELSE al1
       IN  IF ~alert_on_failure
           THEN /\ UNCHANGED amvars
                /\ last_call' = Some([op |-> "check_and_alert",
                                      endpoint |-> ep, success |-> success,
                                      emitted |-> <<>>])
           ELSE /\ failure_counts' = ResetOnSuccess(fc, ep, success)
                /\ total_checks' = tc
                /\ alerts' = al2
                /\ last_call' = Some([op |-> "check_and_alert",
                                      endpoint |-> ep, success |-> success,
                                      emitted |-> Emitted(alerts, al2)])
    /\ checks' = [checks EXCEPT ![ep] = Append(@, success)]
    /\ resets' = resets
    /\ UNCHANGED <<cfgvars, taskvars, rcvars, ltvars, cmvars>>

\* a freshly constructed AlertManager; what no rule reads is fixed
InitAlert ==
    /\ attempts = MaxAttempts
    /\ endpoints = <<RootConfig, TagsConfig>>
    /\ alert_manager = TRUE
    /\ alert_on_failure \in BOOLEAN
    /\ enabled \in BOOLEAN
    /\ min_failures \in 1..MaxAlertMinFailures
    /\ alert_threshold \in AlertThresholds
    /\ use_prometheus = FALSE
    \* the thresholds matter only to a call that can send
    /\ ~(alert_on_failure /\ enabled)
           => (min_failures = 1 /\ alert_threshold = DefaultAlertThresholdPct)
    /\ StateInit

NextAlert ==
    \E ep \in AlertEndpoints, success \in BOOLEAN : CheckAndAlert(ep, success)

SpecAlert == InitAlert /\ [][NextAlert]_vars

\* AlertManager(webhook_url=..., alert_threshold=0.5, min_failures=1)
InitAlertLow ==
    /\ attempts = MaxAttempts
    /\ endpoints = <<RootConfig, TagsConfig>>
    /\ alert_manager = TRUE
    /\ alert_on_failure = TRUE
    /\ enabled = TRUE
    /\ min_failures = 1
    /\ alert_threshold = 50
    /\ use_prometheus = FALSE
    /\ StateInit

SpecAlertLow == InitAlertLow /\ [][NextAlert]_vars

(* check_and_alert calls that overlap: the probes of a load test, all for
   the endpoint "/", after some checks made one after the other *)

\* the two probes of these load tests and their concurrency
OverlapLoads == { <<2, 2>> }

\* one try per probe, a webhook, every failed check sends an error alert
InitOverlap ==
    /\ attempts = 1
    /\ endpoints = <<RootConfig>>
    /\ alert_manager = TRUE
    /\ alert_on_failure = TRUE
    /\ enabled = TRUE
    /\ min_failures = 1
    /\ alert_threshold = DefaultAlertThresholdPct
    /\ use_prometheus = FALSE
    /\ StateInit

\* a check of "/" reported before the load test, by a caller that awaits
\* each check_and_alert call
PriorCheck(success) ==
    /\ lt_pc = "idle"
    /\ Len(checks["/"]) < MaxPriorChecks
    /\ CheckAndAlert("/", success)

NextOverlap ==
    \/ \E success \in BOOLEAN : PriorCheck(success)
    \/ \E l \in OverlapLoads : LoadTest(l[1], l[2])
    \/ \E t \in Tasks : BoundedCheck(t)
    \/ \E t \in Tasks, lat \in ContLatencies, st \in DeliverStatuses, body \in LoadBodies :
           Respond(t, lat, st, body)
    \/ \E t \in Tasks, wo \in WebhookAccepts : WebhookDone(t, wo)
    \/ Summarize

SpecOverlap == InitOverlap /\ [][NextOverlap]_vars

---------------------------------------------------------------------------
(* The bookkeeping methods of AlertManager called in any order *)

\* the checks of one endpoint between two resets: MaxApiChecks for "/",
\* MaxOtherChecks for any other
ApiCap(ep) == IF ep = "/" THEN MaxApiChecks ELSE MaxOtherChecks

\* record_check(ep, success) called directly
RecordCheck(ep, success) ==
    /\ Len(checks[ep]) < ApiCap(ep)
    /\ LET rec == record_check(failure_counts, total_checks, ep, success)
       IN  /\ failure_counts' = rec.failure_counts
           /\ total_checks' = rec.total_checks
    /\ alerts' = alerts
    /\ checks' = [checks EXCEPT ![ep] = Append(@, success)]
    /\ last_call' = Some([op |-> "record_check", endpoint |-> ep,
                          success |-> success])
    /\ resets' = resets
    /\ UNCHANGED <<cfgvars, taskvars, rcvars, ltvars, cmvars>>

\* check_and_alert(ep, success) awaited to its end
ApiCheckAndAlert(ep, success) ==
    /\ Len(checks[ep]) < ApiCap(ep)
    /\ CheckAndAlert(ep, success)

\* reset_stats()
ResetStats ==
    /\ resets < MaxResets
    /\ resets' = resets + 1
    /\ LET cleared == reset_stats(failure_counts, total_checks)
       IN  /\ failure_counts' = cleared.failure_counts
           /\ total_checks' = cleared.total_checks
    /\ alerts' = alerts
    /\ checks' = [ep \in AlertEndpoints |-> <<>>]
    /\ last_call' = Some([op |-> "reset_stats"])
    /\ UNCHANGED <<cfgvars, taskvars, rcvars, ltvars, cmvars>>

\* send_alert(message, severity=sev, endpoint=ep) called directly and
\* awaited; wo is what the webhook request ends with, if one is issued
SendAlert(sev, ep, wo) ==
    /\ Len(alerts) < MaxSends
    /\ LET r == send_alert(wo)
       IN  /\ alerts' = IF r.requested
                        THEN Append(alerts, [ severity |-> sev, endpoint |-> ep,
                                              failures |-> 0, total_checks |-> 0 ])
                        ELSE alerts
           /\ last_call' = Some([ op |-> "send_alert", outcome |-> wo,
                                  requested |-> r.requested,
                                  returned |-> r.returned ])
    /\ UNCHANGED <<failure_counts, total_checks, checks, resets>>
    /\ UNCHANGED <<cfgvars, taskvars, rcvars, ltvars, cmvars>>

\* a freshly constructed AlertManager(webhook_url=None): the counters
\* are written the same way with and without a webhook, and without one
\* no thresholds are read to any effect
InitApi ==
    /\ attempts = MaxAttempts
    /\ endpoints = <<RootConfig, TagsConfig>>
    /\ alert_manager = TRUE
    /\ alert_on_failure \in BOOLEAN
    /\ enabled = FALSE
    /\ min_failures = 1
    /\ alert_threshold = DefaultAlertThresholdPct
    /\ use_prometheus = FALSE
    /\ StateInit

NextApi ==
    \/ \E ep \in AlertEndpoints, success \in BOOLEAN : RecordCheck(ep, success)
    \/ \E ep \in AlertEndpoints, success \in BOOLEAN : ApiCheckAndAlert(ep, success)
    \/ ResetStats

SpecApi == InitApi /\ [][NextApi]_vars

(* send_alert called directly, one awaited call after the other *)

NextSend ==
    \E sev \in Severities, ep \in AlertEndpoints, wo \in WebhookOutcomes :
        SendAlert(sev, ep, wo)

\* a freshly constructed AlertManager, with and without a webhook URL
InitSend ==
    /\ attempts = MaxAttempts
    /\ endpoints = <<RootConfig, TagsConfig>>
    /\ alert_manager = TRUE
    /\ alert_on_failure \in BOOLEAN
    /\ enabled \in BOOLEAN
    /\ min_failures = 1
    /\ alert_threshold = DefaultAlertThresholdPct
    /\ use_prometheus = FALSE
    /\ StateInit

SpecSend == InitSend /\ [][NextSend]_vars

---------------------------------------------------------------------------
(* Properties of async_retry and check_endpoint, checked under Spec *)

\* the tasks whose wrapper has returned or raised
Done == { t \in Tasks : pc[t] = "done" }

\* C1: with attempts >= 1, a wrapper whose operation raised on its first
\* k calls and then returned a value returns that value, and the
\* operation has been invoked exactly k + 1 times
C1_ReturnsAfterKFailures ==
    \A t \in Tasks :
        (attempts >= 1 /\ last_outcome[t].kind = "return" /\ pc[t] = "done")
        => /\ result[t].kind = "return"
           /\ result[t].value = << last_outcome[t].response_time,
                                   last_outcome[t].status_code >>
           /\ calls[t] = raises[t] + 1

\* attempts = 3, two failures, then a value after the third invocation
C1_Witness ==
    \E t \in Tasks :
        /\ attempts = 3
        /\ pc[t] = "done"
        /\ result[t].kind = "return"
        /\ raises[t] = 2
        /\ calls[t] = 3

\* C2: with attempts = n >= 1, a wrapper whose operation raised on every
\* call raises the exception of the n-th call after exactly n invocations,
\* and no task ever makes an (n+1)-th invocation
C2_RaisesAfterNInvocations ==
    \A t \in Tasks :
        attempts >= 1 =>
            /\ calls[t] <= attempts
            /\ (pc[t] = "done" /\ raises[t] = calls[t])
               => /\ result[t] = Raise(last_outcome[t].error)
                  /\ calls[t] = attempts

\* attempts = 3 and three raising invocations, the last a timeout
C2_Witness ==
    \E t \in Tasks :
        /\ attempts = 3
        /\ pc[t] = "done"
        /\ raises[t] = 3
        /\ result[t] = Raise("ReadTimeout")

\* the response of the latest call failed the endpoint's expectation:
\* wrong status, or right status without the expected content
Mismatch(t) ==
    /\ last_outcome[t].kind = "return"
    /\ \/ last_outcome[t].status_code # ConfigOf(t).expected_status
       \/ \E s \in ConfigOf(t).expected_content :
              ~Contains(s, last_outcome[t].text)

\* C3: a probe whose response fails the expectation is never retried: the
\* task is not put to sleep and makes no further request, the mismatching
\* request is the only one besides those that raised, and the wrapper
\* returns (latency, status_code) instead of raising
C3_MismatchNotRetried ==
    \A t \in Tasks :
        Mismatch(t)
        => /\ pc[t] \in {"send_error", "send_warning", "done"}
           /\ calls[t] = raises[t] + 1
           /\ pc[t] = "done"
              => result[t] = [ kind |-> "return",
                               value |-> << last_outcome[t].response_time,
                                            last_outcome[t].status_code >> ]

\* a first request answered with the wrong status, and one answered with
\* the right status but without the expected content, both returned
C3_Witness ==
    /\ \E t \in Done :
          /\ Mismatch(t) /\ calls[t] = 1 /\ result[t].kind = "return"
          /\ last_outcome[t].status_code # ConfigOf(t).expected_status
    /\ \E t \in Done :
          /\ Mismatch(t) /\ calls[t] = 1 /\ result[t].kind = "return"
          /\ last_outcome[t].status_code = ConfigOf(t).expected_status

\* C4: for a completed response the success handed to the alert evaluator
\* is true exactly when the status is the expected one and the expected
\* content is unset or occurs in the body
C4_SuccessIffExpected ==
    \A t \in Tasks :
        (alert_manager /\ last_outcome[t].kind = "return")
        => ( Last(reported[t])
             <=> /\ last_outcome[t].status_code = ConfigOf(t).expected_status
                 /\ \/ ConfigOf(t).expected_content = None
                    \/ \E s \in ConfigOf(t).expected_content :
                           Contains(s, last_outcome[t].text) )

\* the expected status without the expected content is reported as a
\* failure, and with it as a success
C4_Witness ==
    /\ alert_manager
    /\ \E t \in Tasks :
          /\ last_outcome[t].kind = "return"
          /\ last_outcome[t].status_code = ConfigOf(t).expected_status
          /\ Truthy(ConfigOf(t).expected_content)
          /\ Last(reported[t]) = FALSE
    /\ \E t \in Tasks :
          /\ last_outcome[t].kind = "return"
          /\ Last(reported[t]) = TRUE

---------------------------------------------------------------------------
(* Properties of run_checks, checked under Spec *)

\* the final outcome of the probe of the i-th configured endpoint, as
\* the caller of the wrapper sees it
OutcomeOfEndpoint(i) ==
    LET t == CHOOSE u \in Tasks : task_endpoint[u] = endpoints[i].path
    IN  CASE attempts = 0 -> ReturnNone
          [] last_outcome[t].kind = "return" ->
                 [ kind |-> "return",
                   value |-> << last_outcome[t].response_time,
                                last_outcome[t].status_code >> ]
          [] OTHER -> Raise(last_outcome[t].error)

\* C5: run_checks returns one result per configured endpoint, the i-th
\* being the outcome of the i-th endpoint in iteration order, in every
\* completion order
C5_ResultsInEndpointOrder ==
    rc_pc = "returned"
    => /\ Len(results) = Len(endpoints)
       /\ \A i \in DOMAIN endpoints : results[i] = OutcomeOfEndpoint(i)

\* the second endpoint completed first, with another outcome than the
\* first endpoint's
C5_Witness ==
    /\ rc_pc = "returned"
    /\ finished = <<2, 1>>
    /\ results[1] # results[2]

\* C6: a probe that raises, also after exhausting its retries, does not
\* make run_checks raise and cancels nothing: run_checks returns only
\* when every probe has ended, each slot holding that probe's own
\* outcome, the raising probe's slot its error
C6_FailureIsolated ==
    /\ rc_pc # "raised"
    /\ rc_pc = "returned"
       => \A i \in DOMAIN endpoints :
              /\ pc[i] = "done"
              /\ results[i] = OutcomeOfEndpoint(i)
              /\ raises[i] = attempts /\ attempts >= 1
                 => results[i] = Raise(last_outcome[i].error)

\* endpoints [A succeeds, B exhausts three attempts]: [Success, Error]
C6_Witness ==
    /\ rc_pc = "returned"
    /\ attempts = 3
    /\ results[1].kind = "return"
    /\ results[2].kind = "raise"
    /\ raises[2] = 3

\* C7 (as claimed): in one run_checks cycle the alert evaluator receives
\* exactly one check per endpoint, its final outcome, so that total_checks
\* grows by exactly one per endpoint and cycle (the monitor is fresh: it
\* grows from 0), retried probes included.  Stated for an evaluator that
\* records (alert_on_failure) and a retry budget of at least one call.
C7_OneCheckPerEndpointAndCycle ==
    (rc_pc = "returned" /\ alert_manager /\ alert_on_failure /\ attempts >= 1)
    => \A t \in Tasks :
           /\ Len(reported[t]) = 1
           /\ total_checks[task_endpoint[t]] = 1

---------------------------------------------------------------------------
(* Properties of load_test, checked under SpecLoad *)

\* load_test has ended, with its dict or with an exception
LoadEnded == lt_pc \in {"returned", "raised"}

\* C8: load_test(N, C) with C >= 1 creates exactly N probes, at most C of
\* them are ever inside the semaphore-guarded section (request, alert
\* delivery and retry delay included), and when the endpoint "/" is
\* configured and attempts >= 1 each of the N probes has issued a request
\* by the time load_test ends
C8_AtMostCInFlight ==
    /\ Cardinality(InFlight) <= concurrency
    /\ lt_pc # "idle" => Tasks = 1..num_requests
    /\ (LoadEnded /\ Lookup(endpoints, "/") # {} /\ attempts >= 1)
       => \A t \in Tasks : pc[t] = "done" /\ calls[t] >= 1

\* all C slots taken, one of them by a probe in its retry delay, while
\* another probe waits for a slot
C8_Witness ==
    /\ lt_pc = "gather"
    /\ Cardinality(InFlight) = concurrency
    /\ \E t \in InFlight : pc[t] = "sleep"
    /\ \E t \in Tasks : pc[t] = "new"

\* C9: a probe that raises is recorded as a null status and stops no other
\* probe: every ended probe has exactly one entry in status_codes, null
\* for those that did not return, and the returned summary has
\* total_requests = N, successful_requests = the number of probes that
\* returned status 200 and failed_requests = N - successful_requests
C9_SummaryCounts ==
    /\ lt_pc # "idle"
       => /\ Len(status_codes) = Cardinality(Done)
          /\ Count(status_codes, None)
                 = Cardinality({ t \in Done : result[t].kind # "return" })
    /\ LoadEnded => Cardinality(Done) = num_requests
    /\ lt_pc = "returned"
       => \E s \in summary :
              LET ok == { t \in Tasks : /\ result[t].kind = "return"
                                        /\ result[t].value[2] = 200 }
              IN  /\ s.total_requests = num_requests
                  /\ s.successful_requests = Cardinality(ok)
                  /\ s.failed_requests = num_requests - Cardinality(ok)
                  /\ s.successful_requests + s.failed_requests = num_requests

\* two probes, one exhausting its retries and one answered with 200:
\* one successful and one failed request
C9_Witness ==
    /\ lt_pc = "returned"
    /\ num_requests = 2
    /\ \E t \in Tasks : result[t].kind = "raise" /\ calls[t] = 2
    /\ \E s \in summary : s.successful_requests = 1 /\ s.failed_requests = 1

\* C10: when no probe produced a latency value, load_test returns
\* normally and the five latency statistics of the summary are 0
C10_NoLatencyAllZero ==
    (LoadEnded /\ response_times = <<>>)
    => /\ lt_pc = "returned"
       /\ \E s \in summary :
              /\ s.average_response_time = <<0, 1>>
              /\ s.median_response_time = <<0, 1>>
              /\ s.p95_response_time = <<0, 1>>
              /\ s.min_response_time = <<0, 1>>
              /\ s.max_response_time = <<0, 1>>

\* two probes that both exhausted their retries on transport errors
C10_Witness ==
    /\ lt_pc = "returned"
    /\ num_requests = 2
    /\ response_times = <<>>
    /\ \A t \in Tasks : result[t].kind = "raise" /\ calls[t] = attempts
    /\ attempts = 2

\* C11: the load generator bypasses the alert evaluator: a load_test run
\* on a monitor with an AlertManager attached leaves every endpoint's
\* alert counters as they were (here: never written) and emits no alert
C11_LoadTestBypassesAlerts ==
    (LoadEnded /\ alert_manager)
    => /\ total_checks = <<>>
       /\ failure_counts = <<>>
       /\ alerts = <<>>

---------------------------------------------------------------------------
(* Properties of AlertManager.check_and_alert, checked under SpecAlert *)

\* the length of the trailing run of failed checks of a history
RECURSIVE TrailingFailures(_)
TrailingFailures(h) ==
    IF h = <<>> \/ Last(h)
    THEN 0
    ELSE 1 + TrailingFailures(SubSeq(h, 1, Len(h) - 1))

\* the number of failed checks of a history
Failures(h) == Cardinality({ i \in DOMAIN h : ~h[i] })

\* the number of entries of a sequence that equal x
Occurrences(seq, x) == Cardinality({ i \in DOMAIN seq : seq[i] = x })

\* C17: with alerting on, after any sequence of check_and_alert calls for
\* an endpoint its consecutive-failure counter equals the length of the
\* trailing run of failed checks, and so is 0 after any success
C17_CounterIsTrailingRun ==
    alert_on_failure
    => \A ep \in AlertEndpoints :
           checks[ep] # <<>>
           => /\ ep \in DOMAIN failure_counts
              /\ failure_counts[ep] = TrailingFailures(checks[ep])
              /\ Last(checks[ep]) => failure_counts[ep] = 0

\* two failures, a success, then two failures again: the counter is 2
C17_Witness ==
    /\ alert_on_failure
    /\ checks["/"] = <<FALSE, FALSE, TRUE, FALSE, FALSE>>
    /\ failure_counts["/"] = 2
    /\ total_checks["/"] = 5

\* C18: with alerting on and a webhook set, a check_and_alert call sends
\* an error alert, and exactly one, if and only if its check failed and
\* the trailing run of failures, this one included, has reached
\* min_failures; so it fires again on every further consecutive failure
\* and never on a success
C18_ErrorAlertIffRunReached ==
    (alert_on_failure /\ Sends)
    => \A c \in last_call :
           /\ Occurrences(c.emitted, "error") =
                  IF /\ ~c.success
                     /\ TrailingFailures(checks[c.endpoint]) >= min_failures
                  THEN 1 ELSE 0
           /\ c.success => TrailingFailures(checks[c.endpoint]) = 0

\* min_failures = 3: four failures (alerts on the third and the fourth),
\* a success, and two more failures that do not alert
C18_Witness ==
    /\ alert_on_failure /\ Sends
    /\ min_failures = 3
    /\ checks["/"] = <<FALSE, FALSE, FALSE, FALSE, TRUE, FALSE, FALSE>>
    /\ [i \in DOMAIN alerts |-> <<alerts[i].severity, alerts[i].failures>>]
           = << <<"error", 3>>, <<"error", 4>> >>
    /\ \E c \in last_call : ~c.success /\ c.emitted = <<>>

\* C19: on every check at which total_checks >= 10 and the lifetime
\* success rate 1 - total_failures/total_checks, over every failure
\* since start, is below alert_threshold, check_and_alert sends a warning
C19_WarningOnLifetimeRate ==
    (alert_on_failure /\ Sends)
    => \A c \in last_call :
           LET h == checks[c.endpoint]
           IN  (/\ Len(h) >= 10
                /\ 100 * (Len(h) - Failures(h)) < alert_threshold * Len(h))
               => Occurrences(c.emitted, "warning") = 1

\* C20: no warning is sent for an endpoint on a check at which its
\* total_checks, the current check included, is below 10
C20_NoWarningBelowTenChecks ==
    /\ \A c \in last_call :
           Occurrences(c.emitted, "warning") > 0
           => /\ Len(checks[c.endpoint]) >= 10
              /\ total_checks[c.endpoint] >= 10
    /\ \A i \in DOMAIN alerts :
           alerts[i].severity = "warning" => alerts[i].total_checks >= 10

\* nine failures without a warning, then the warning on the tenth check
C20_Witness ==
    /\ Len(checks["/"]) = 10
    /\ Failures(checks["/"]) = 10
    /\ Occurrences([i \in DOMAIN alerts |-> alerts[i].severity], "warning") = 1
    /\ \E c \in last_call : Occurrences(c.emitted, "warning") = 1

---------------------------------------------------------------------------
(* Properties of continuous_monitoring, checked under SpecCont *)

\* C12: once the shutdown event is set, no run_checks call begins, also
\* when the set coincides with the timeout of the interval wait; a wait
\* with the event set ends in the return of continuous_monitoring
C12_NoCycleAfterShutdown ==
    [][ /\ shutdown_event => (cycle' = cycle /\ (rc_pc' = "gather" => rc_pc = "gather"))
        /\ (cm_pc = "wait" /\ shutdown_event /\ cm_pc' # cm_pc)
           => cm_pc' = "stopped" ]_vars

\* the event was set during the wait after the first cycle and the loop
\* returned with one more cycle allowed
C12_Witness ==
    /\ cm_pc = "stopped"
    /\ cycle < MaxCycles
    /\ \E s \in signal_at : s.cm_pc = "wait" /\ s.cycle = cycle

\* C13: setting the shutdown event during a cycle interrupts nothing:
\* the step that sets it changes no probe, every probe of that cycle,
\* alert evaluation included, has ended and run_checks has returned
\* before continuous_monitoring returns, and no further cycle begins
C13_CycleRunsToCompletion ==
    /\ [][ (shutdown_event' /\ ~shutdown_event)
              => UNCHANGED <<cm_pc, taskvars, rcvars, amvars>> ]_vars
    /\ [](\A s \in signal_at :
             s.cm_pc = "cycle"
             => /\ cycle = s.cycle
                /\ cm_pc \in {"cycle", "wait", "stopped"}
                /\ cm_pc \in {"wait", "stopped"}
                   => /\ rc_pc = "returned"
                      /\ \A t \in Tasks : pc[t] = "done" /\ result[t] # Pending)

\* the event was set during the first cycle, a probe of that cycle went
\* through a retry and an alert, and the loop returned after all ended
C13_Witness ==
    /\ cm_pc = "stopped"
    /\ \E s \in signal_at : s.cm_pc = "cycle" /\ s.cycle = 1
    /\ Tasks # {}
    /\ \A t \in Tasks : pc[t] = "done"
    /\ \E t \in Tasks : calls[t] = 2
    /\ alerts # <<>>

\* C14: continuous_monitoring never raises: an exception of a cycle is
\* absorbed, the loop goes on to the interval wait and, when no shutdown
\* was requested, its next step begins another cycle
C14_CycleErrorAbsorbed ==
    /\ [](cm_pc # "raised")
    /\ [](cycle_error => cm_pc \in {"wait", "stopped"})
    /\ [][ (cycle_error /\ cm_pc = "wait" /\ ~shutdown_event
              /\ <<cm_pc, cycle, cycle_error>>' # <<cm_pc, cycle, cycle_error>>)
             => cycle' = cycle + 1 ]_vars

\* the first cycle raised, no run_checks call has ever returned, and the
\* probes of the second cycle are running
C14_Witness ==
    /\ cm_pc = "cycle"
    /\ cycle = 2
    /\ ~cycle_error
    /\ results = <<>>
    /\ ~shutdown_event
    /\ \E t \in Tasks : pc[t] = "request"

\* C15: cycles never overlap: when the probes of a cycle are created,
\* every probe of the cycle before, alert evaluation included, has ended
C15_CyclesDoNotOverlap ==
    [][ (cycle' # cycle \/ (rc_pc' = "gather" /\ rc_pc # "gather"))
          => /\ \A t \in Tasks : pc[t] = "done"
             /\ rc_pc # "gather" ]_vars

\* the second cycle has just created its probes; the first one returned
\* its results and sent an alert
C15_Witness ==
    /\ cycle = 2
    /\ cm_pc = "cycle"
    /\ Tasks # {}
    /\ \A t \in Tasks : pc[t] = "new"
    /\ results # <<>>
    /\ alerts # <<>>

\* C16: continuous_monitoring returns only with the shutdown event set;
\* while the event is not set every interval wait is followed by another
\* cycle (up to MaxCycles); and once the event is set
\* continuous_monitoring eventually returns
C16_StopsOnlyAndSurelyOnShutdown ==
    /\ [](cm_pc = "stopped" => shutdown_event)
    /\ \A n \in 0..(MaxCycles - 1) :
           (cm_pc = "wait" /\ cycle = n /\ ~shutdown_event)
               ~> (cycle = n + 1 \/ shutdown_event)
    /\ shutdown_event ~> (cm_pc = "stopped")

\* the loop returned after its last cycle, during which the event was set
C16_Witness ==
    /\ cm_pc = "stopped"
    /\ cycle = MaxCycles
    /\ \E s \in signal_at : s.cycle = MaxCycles

---------------------------------------------------------------------------
(* Properties of the AlertManager bookkeeping, checked under SpecApi *)

\* the endpoints with a check since the last reset
Checked == { ep \in AlertEndpoints : checks[ep] # <<>> }

\* C21: for every sequence of checks recorded for an endpoint, by
\* record_check or by check_and_alert, get_stats reports total_checks =
\* the number of checks, failures = the number of failed checks and
\* successes = the number of successful ones
C21_StatsCountChecks ==
    alert_on_failure
    => \A ep \in Checked :
           LET stats == get_stats(failure_counts, total_checks)
               h == checks[ep]
           IN  /\ ep \in DOMAIN stats
               /\ stats[ep].total_checks = Len(h)
               /\ stats[ep].failures = Failures(h)
               /\ stats[ep].successes = Len(h) - Failures(h)

\* C22: for every endpoint the AlertManager tracks, 0 <= failure count
\* <= total_checks, so get_stats reports no negative successes, after
\* any sequence of record_check, check_and_alert and reset_stats calls
C22_FailuresWithinTotal ==
    /\ DOMAIN failure_counts = DOMAIN total_checks
    /\ \A ep \in DOMAIN total_checks :
           /\ 0 <= failure_counts[ep]
           /\ failure_counts[ep] <= total_checks[ep]
           /\ get_stats(failure_counts, total_checks)[ep].successes >= 0

\* after a reset, every check recorded for "/" has failed: the failure
\* count equals total_checks
C22_Witness ==
    /\ resets = 1
    /\ Len(checks["/"]) = MaxApiChecks
    /\ total_checks["/"] = MaxApiChecks
    /\ failure_counts["/"] = MaxApiChecks

\* C28: right after reset_stats get_stats is empty; an endpoint appears
\* in get_stats only once a check of it has been recorded since the
\* last reset, and its counts start again from that check, with nothing
\* carried over
C28_ResetClearsEveryEndpoint ==
    /\ DOMAIN failure_counts = DOMAIN total_checks
    /\ \A c \in last_call :
           c.op = "reset_stats"
           => DOMAIN get_stats(failure_counts, total_checks) = {}
    /\ DOMAIN get_stats(failure_counts, total_checks) \subseteq Checked
    /\ alert_on_failure
           => DOMAIN get_stats(failure_counts, total_checks) = Checked
    /\ \A ep \in DOMAIN total_checks :
           /\ total_checks[ep] <= Len(checks[ep])
           /\ failure_counts[ep] <= Failures(checks[ep])
           /\ alert_on_failure => total_checks[ep] = Len(checks[ep])
           /\ (alert_on_failure /\ Len(checks[ep]) = 1)
                  => failure_counts[ep] = IF checks[ep][1] THEN 0 ELSE 1

\* after the reset one successful check of "/api/tags" was recorded:
\* it is the only endpoint in get_stats, with total_checks = 1
C28_Witness ==
    /\ resets = 1
    /\ checks["/api/tags"] = <<TRUE>>
    /\ checks["/"] = <<>>
    /\ DOMAIN get_stats(failure_counts, total_checks) = {"/api/tags"}
    /\ total_checks["/api/tags"] = 1
    /\ failure_counts["/api/tags"] = 0

---------------------------------------------------------------------------
(* Further properties of check_and_alert and send_alert *)

\* the webhook requests the latest call added to the log
SentBy(c) == SubSeq(alerts, Len(alerts) - Len(c.emitted) + 1, Len(alerts))

\* C23: the two rules are independent: a check_and_alert call for a
\* failing check with consecutive failures >= min_failures, total_checks
\* >= 10 and success rate (over all checks since start) below
\* alert_threshold sends an error alert and then a warning alert
C23_BothAlertsErrorFirst ==
    (alert_on_failure /\ Sends)
    => \A c \in last_call :
           LET h == checks[c.endpoint]
           IN  (/\ ~c.success
                /\ TrailingFailures(h) >= min_failures
                /\ Len(h) >= 10
                /\ 100 * (Len(h) - Failures(h)) < alert_threshold * Len(h))
               => c.emitted = <<"error", "warning">>

\* C24: with alerting disabled (alert_on_failure false, or no webhook
\* URL) no sequence of check results delivers an alert, and without a
\* webhook URL send_alert issues no request and returns False whatever
\* the webhook would answer
C24_DisabledSendsNothing ==
    /\ (~alert_on_failure \/ ~enabled)
           => /\ alerts = <<>>
              /\ \A c \in last_call : c.emitted = <<>>
    /\ ~enabled
           => \A wo \in WebhookOutcomes :
                  send_alert(wo) = [requested |-> FALSE, returned |-> FALSE]

\* ten failed checks in a row with alert_on_failure on and no webhook
\* URL: both rules hold and nothing has been sent
C24_Witness ==
    /\ alert_on_failure /\ ~enabled
    /\ Len(checks["/"]) = 10
    /\ Failures(checks["/"]) = 10
    /\ failure_counts["/"] = 10
    /\ alerts = <<>>

\* C25: bookkeeping is not gated: every check handed to check_and_alert
\* adds 1 to the endpoint's total_checks, and a failed one 1 to its
\* failure count, also with alert_on_failure false, and get_stats counts
\* those checks
C25_BookkeepingUngated ==
    /\ \A ep \in AlertEndpoints :
           checks[ep] # <<>>
           => /\ ep \in DOMAIN total_checks
              /\ total_checks[ep] = Len(checks[ep])
              /\ get_stats(failure_counts, total_checks)[ep].total_checks
                     = Len(checks[ep])
    /\ \A c \in last_call :
           ~c.success => failure_counts[c.endpoint] >= 1

\* C29: with a webhook URL set, send_alert issues the request and
\* returns True if and only if the request ends with status 200, 201,
\* 202 or 204; any other status and any exception give False
C29_TrueIffAcceptedStatus ==
    enabled
    => \A c \in last_call :
           /\ c.requested
           /\ c.returned
                  <=> /\ c.outcome.kind = "status"
                      /\ c.outcome.status \in {200, 201, 202, 204}

\* a first request answered 204 or alike, a second one answered 203:
\* send_alert returned False
C29_Witness ==
    /\ enabled
    /\ Len(alerts) = 2
    /\ \E c \in last_call :
           c.outcome = [kind |-> "status", status |-> 203] /\ ~c.returned

\* C30: both threshold tests see the counters with the current check
\* folded in: with min_failures = 1 a first failure sends an error
\* alert; the success-rate rule is not evaluated before the 10th check
\* and on the 10th a failed check sends the warning; and every alert
\* carries total_checks and failures with the current check counted
C30_ThresholdsSeeCurrentCheck ==
    (alert_on_failure /\ Sends)
    => \A c \in last_call :
           LET h == checks[c.endpoint]
               run == IF c.success
                      THEN TrailingFailures(SubSeq(h, 1, Len(h) - 1))
                      ELSE TrailingFailures(h)
           IN  /\ (min_failures = 1 /\ ~c.success)
                      => Occurrences(c.emitted, "error") = 1
               /\ Len(h) < 10 => Occurrences(c.emitted, "warning") = 0
               /\ (Len(h) = 10 /\ ~c.success)
                      => Occurrences(c.emitted, "warning") = 1
               /\ \A i \in DOMAIN SentBy(c) :
                      /\ SentBy(c)[i].total_checks = Len(h)
                      /\ SentBy(c)[i].failures = run
                      /\ ~c.success => SentBy(c)[i].failures >= 1

\* nine successes and then a failure, min_failures = 3: the 10th check
\* sends the warning, with total_checks = 10 and failures = 1
C30_Witness ==
    /\ alert_on_failure /\ Sends
    /\ min_failures = 3
    /\ Len(checks["/"]) = 10
    /\ Failures(checks["/"]) = 1
    /\ ~Last(checks["/"])
    /\ [i \in DOMAIN alerts |->
            <<alerts[i].severity, alerts[i].failures, alerts[i].total_checks>>]
           = << <<"warning", 1, 10>> >>

---------------------------------------------------------------------------
(* Properties of alert delivery inside a continuous run, checked under
   SpecDeliver *)

\* the webhook POST ended without an accepted status
DeliveryFailed(wo) ==
    ~(wo.kind = "status" /\ wo.status \in {200, 201, 202, 204})

\* C26: a failed alert delivery (the webhook request raises, times out
\* or answers a status that is not accepted) never propagates:
\* send_alert returns False, the step that ends the delivery leaves the
\* counters as the check set them whatever the webhook did, a finished
\* probe hands back the outcome of its last request, run_checks returns
\* those outcomes and the loop never leaves through an exception
C26_DeliveryFailureAbsorbed ==
    /\ [](/\ \A c \in last_call :
               DeliveryFailed(c.outcome) => (c.requested /\ ~c.returned)
          /\ \A t \in Tasks :
               pc[t] = "done" => result[t] = WrapperResult(last_outcome[t])
          /\ rc_pc = "returned"
               => results = [t \in Tasks |-> WrapperResult(last_outcome[t])]
          /\ rc_pc # "raised" /\ cm_pc # "raised" /\ ~cycle_error)
    /\ [][ last_call' # last_call
              => /\ total_checks' = total_checks
                 /\ failure_counts' = failure_counts
                 /\ alerts' = alerts ]_vars

\* second cycle: the probe got a 500, the POST of its error alert
\* raised, and the probe has returned its (latency, status) pair to a
\* run_checks that has returned
C26_Witness ==
    /\ cycle = 2
    /\ cm_pc = "wait"
    /\ rc_pc = "returned"
    /\ \E c \in last_call : c.outcome.kind = "raise" /\ ~c.returned
    /\ results = << [kind |-> "return", value |-> <<1, 500>>] >>
    /\ total_checks["/"] = 2
    /\ failure_counts["/"] = 2
    /\ Len(alerts) = 2

---------------------------------------------------------------------------
(* Property of a down server, checked under SpecDown *)

\* the error alerts sent for an endpoint so far
ErrorAlerts(ep) ==
    Cardinality({ i \in DOMAIN alerts :
                    alerts[i].severity = "error" /\ alerts[i].endpoint = ep })

\* C27: with every request raising, retry attempts = 3 and min_failures
\* = 3, an endpoint gets no error alert in the first two cycles, and
\* one error alert in each cycle from the third on
C27_OneErrorAlertPerCycleFromThird ==
    \A t \in Tasks :
        /\ cycle <= 2 => ErrorAlerts(task_endpoint[t]) = 0
        /\ (cycle >= 3 /\ cm_pc = "wait")
               => ErrorAlerts(task_endpoint[t]) = cycle - 2

---------------------------------------------------------------------------
(* Further properties of the retry wrapper, checked under Spec *)

\* the task is inside an invocation of check_endpoint
Invoking(t) == pc[t] \in {"request", "send_error", "send_warning"}

\* C33: the attempts of one probe are sequential with one delay between
\* two of them: an invocation begins only when every earlier one has
\* raised and has been followed by one sleep, a wrapper that has made m
\* invocations and is not sleeping has slept m - 1 times, and a finished
\* wrapper has slept m - 1 times (no delay after the attempt that
\* returned or after the last failed one)
C33_AttemptsSequentialWithDelay ==
    \A t \in Tasks :
        /\ calls[t] >= 1 => raises[t] >= calls[t] - 1
        /\ Invoking(t) => sleeps[t] = calls[t] - 1
        /\ pc[t] = "sleep"
               => /\ sleeps[t] = calls[t]
                  /\ raises[t] = calls[t]
                  /\ calls[t] < attempts
        /\ (pc[t] = "done" /\ calls[t] >= 1) => sleeps[t] = calls[t] - 1
        /\ calls[t] = 0 => sleeps[t] = 0

\* attempts = 3: one probe raised three times and slept twice, the other
\* returned from its first invocation and never slept
C33_Witness ==
    /\ attempts = 3
    /\ \E t \in Tasks :
           /\ pc[t] = "done" /\ raises[t] = 3 /\ calls[t] = 3 /\ sleeps[t] = 2
    /\ \E t \in Tasks :
           /\ pc[t] = "done" /\ raises[t] = 0 /\ calls[t] = 1 /\ sleeps[t] = 0
           /\ result[t].kind = "return"

\* C39: with attempts = 0 the wrapper never invokes the wrapped function
\* and returns None without raising; with attempts >= 1 a finished
\* wrapper has invoked it at least once, and never more than attempts
\* times
C39_ZeroAttemptsNoInvocation ==
    \A t \in Tasks :
        /\ attempts = 0
               => /\ calls[t] = 0
                  /\ pc[t] \in {"new", "done"}
                  /\ pc[t] = "done" => result[t] = ReturnNone
        /\ attempts >= 1
               => /\ calls[t] <= attempts
                  /\ pc[t] = "done" => calls[t] >= 1

\* attempts = 0: run_checks has returned a list of None, no request was
\* made
C39_Witness ==
    /\ attempts = 0
    /\ rc_pc = "returned"
    /\ results = <<ReturnNone, ReturnNone>>
    /\ \A t \in Tasks : calls[t] = 0

---------------------------------------------------------------------------
(* Property of the probes of one cycle, checked under Spec *)

\* the alerts sent for one endpoint, in order
AlertsFor(ep) == SelectSeq(alerts, LAMBDA a : a.endpoint = ep)

\* the alerts that the checks h of one endpoint, taken alone from a fresh
\* AlertManager, send while fewer than 10 checks have been made
AlertsOf(ep, h) ==
    LET all == [i \in 1..Len(h) |->
                   [severity |-> "error", endpoint |-> ep,
                    failures |-> TrailingFailures(SubSeq(h, 1, i)),
                    total_checks |-> i]]
    IN  IF enabled
        THEN SelectSeq(all, LAMBDA a : ~h[a.total_checks]
                                       /\ a.failures >= min_failures)
        ELSE <<>>

\* C37: a check_and_alert call touches the counters of its own endpoint
\* only and sends alerts for it only: during and after a cycle of
\* concurrent probes with distinct endpoints, the counters and the
\* alerts of each endpoint are those of its own checks taken alone,
\* whatever the other probes did and in whatever order they completed
C37_EndpointsDoNotInterfere ==
    IF alert_manager /\ alert_on_failure
    THEN \A t \in Tasks :
             LET ep == task_endpoint[t]
                 h == reported[t]
             IN  IF h = <<>>
                 THEN /\ ep \notin DOMAIN total_checks
                      /\ ep \notin DOMAIN failure_counts
                      /\ AlertsFor(ep) = <<>>
                 ELSE /\ total_checks[ep] = Len(h)
                      /\ failure_counts[ep] = TrailingFailures(h)
                      /\ AlertsFor(ep) = AlertsOf(ep, h)
    ELSE /\ total_checks = <<>>
         /\ failure_counts = <<>>
         /\ alerts = <<>>

\* the second probe completed first; the first endpoint failed twice and
\* then succeeded, the second failed three times; min_failures = 2, so
\* one alert for the first endpoint and two for the second
C37_Witness ==
    /\ rc_pc = "returned"
    /\ finished = <<2, 1>>
    /\ min_failures = 2
    /\ reported = << <<FALSE, FALSE, TRUE>>, <<FALSE, FALSE, FALSE>> >>
    /\ Len(AlertsFor(task_endpoint[1])) = 1
    /\ Len(AlertsFor(task_endpoint[2])) = 2
    /\ failure_counts[task_endpoint[1]] = 0
    /\ failure_counts[task_endpoint[2]] = 3

---------------------------------------------------------------------------
(* Property of the first iteration of continuous_monitoring, checked under
   SpecCont *)

\* C36: the loop starts in Running: every continuous_monitoring call
\* runs at least one cycle, so an event that was set before the call is
\* acted on only after the first cycle, and a call that has ended has
\* begun one cycle or more
C36_FirstCycleAlwaysRuns ==
    /\ cm_pc = "stopped" => cycle >= 1
    /\ \A s \in signal_at :
           (s.cm_pc = "idle" /\ cm_pc # "idle") => cycle >= 1

---------------------------------------------------------------------------
(* Further properties of load_test, checked under SpecLoad *)

\* C35: load_test returns a summary and never raises, however many of
\* its probes produced a latency: with exactly one latency value the
\* statistics are those of that single sample
C35_SummaryForAnySampleCount ==
    /\ lt_pc # "raised"
    /\ (lt_pc = "returned" /\ Len(response_times) = 1)
           => \A s \in summary :
                  /\ s.average_response_time = << response_times[1], 1 >>
                  /\ s.median_response_time = << response_times[1], 1 >>
                  /\ s.min_response_time = << response_times[1], 1 >>
                  /\ s.max_response_time = << response_times[1], 1 >>

\* C38: load_test probes the key "/": with no "/" among the endpoints no
\* request is made, every probe is recorded as failed (status None, no
\* latency), and load_test returns, never raises, a summary with
\* successful_requests = 0, failed_requests = N and all statistics 0
C38_MissingRootAllFailed ==
    Lookup(endpoints, "/") = {}
    => /\ \A t \in Tasks : calls[t] = 0 /\ pc[t] \in {"new", "done"}
       /\ response_times = <<>>
       /\ \A i \in DOMAIN status_codes : status_codes[i] = None
       /\ alerts = <<>>
       /\ lt_pc # "raised"
       /\ lt_pc = "returned"
              => /\ Len(status_codes) = num_requests
                 /\ \A s \in summary :
                        /\ s.total_requests = num_requests
                        /\ s.successful_requests = 0
                        /\ s.failed_requests = num_requests
                        /\ s.average_response_time = Zero
                        /\ s.median_response_time = Zero
                        /\ s.p95_response_time = Zero
                        /\ s.min_response_time = Zero
                        /\ s.max_response_time = Zero

\* load_test(2, c) on a monitor without "/" has returned: two failed
\* requests, a retry budget that was never used
C38_Witness ==
    /\ Lookup(endpoints, "/") = {}
    /\ attempts = 2
    /\ lt_pc = "returned"
    /\ num_requests = 2
    /\ \E s \in summary : s.failed_requests = 2
    /\ \A t \in Tasks : result[t] = Raise("KeyError")

---------------------------------------------------------------------------
(* Progress of load_test, checked under SpecLoadFair *)

\* load_test has returned its summary or raised
LoadOver == lt_pc \in {"returned", "raised"}

\* C34: every probe gives its semaphore slot back, on the returning and
\* on the raising path: while requests end, every load_test call, for
\* every N >= 0 and C >= 1, comes to an end with all N probes finished,
\* and at that end all C slots are free
C34_LoadTestEndsWithSlotsFree ==
    /\ [](LoadOver => (semaphore = concurrency /\ Tasks = Done))
    /\ [](semaphore + Cardinality(InFlight) = IF lt_pc = "idle" THEN 0 ELSE concurrency)
    /\ (lt_pc = "gather") ~> LoadOver

\* load_test(2, 1) has returned: the first probe raised on both its
\* attempts, the second got the slot afterwards and returned
C34_Witness ==
    /\ lt_pc = "returned"
    /\ num_requests = 2 /\ concurrency = 1
    /\ semaphore = 1
    /\ finished = <<1, 2>>
    /\ result[1].kind = "raise"
    /\ result[2].kind = "return"
    /\ status_codes = << None, Some(200) >>

---------------------------------------------------------------------------
(* Property of the metrics, checked under SpecMetrics *)

\* C32: metrics are observational only: where every request gets the
\* response its endpoint expects, an exception of a metric call changes
\* nothing: each probe makes one request and never sleeps for a retry,
\* reports success to check_and_alert, no alert is sent, and the probe
\* returns its (latency, status) pair
C32_MetricsObservationalOnly ==
    /\ \A t \in Tasks :
           /\ calls[t] <= 1
           /\ sleeps[t] = 0
           /\ \A i \in DOMAIN reported[t] : reported[t][i]
           /\ pc[t] = "done"
                  => result[t] = [kind |-> "return", value |-> <<1, 200>>]
    /\ alerts = <<>>
    /\ \A ep \in DOMAIN failure_counts : failure_counts[ep] = 0

---------------------------------------------------------------------------
(* Property of overlapping check_and_alert calls, checked under
   SpecOverlap *)

\* one check_and_alert call run from its first line to its return with
\* no other call in between
SerialCall(st, ep, success) ==
    LET rec == record_check(st.failure_counts, st.total_checks, ep, success)
        fc == rec.failure_counts
        tc == rec.total_checks
        al1 == IF FailureRule(fc, ep, success) /\ Sends
               THEN Append(st.alerts, Alert("error", ep, fc, tc))
               ELSE st.alerts
        al2 == IF RateRule(fc, tc, ep) /\ Sends
               THEN Append(al1, Alert("warning", ep, fc, tc))
               ELSE al1
    IN  [failure_counts |-> ResetOnSuccess(fc, ep, success),
         total_checks |-> tc, alerts |-> al2]

\* the calls of seq for one endpoint, run one after the other
RECURSIVE SerialRun(_, _, _)
SerialRun(st, ep, seq) ==
    IF seq = <<>> THEN st
    ELSE SerialRun(SerialCall(st, ep, Head(seq)), ep, Tail(seq))

\* a fresh AlertManager
Fresh == [failure_counts |-> <<>>, total_checks |-> <<>>, alerts |-> <<>>]

\* C31: overlapping check_and_alert calls for one endpoint behave as if
\* each ran alone: when the two probes of a load test have ended, the
\* counters and the alerts sent are those of the earlier checks followed
\* by the two calls in one order or the other
C31_OverlappingCallsSerializable ==
    (lt_pc # "idle" /\ Len(pc) = 2 /\ Tasks = Done)
    => \E o \in { <<1, 2>>, <<2, 1>> } :
           LET st == SerialRun(Fresh, "/",
                               checks["/"] \o reported[o[1]] \o reported[o[2]])
           IN  /\ failure_counts = st.failure_counts
               /\ total_checks = st.total_checks
               /\ alerts = st.alerts

====
